---- MODULE Spec2Model ----
(***************************************************************************)
(* Model of the chat backend: the three relations of backend/src/db.ts     *)
(* (users, sessions, messages), the request handlers of                    *)
(* backend/src/index.ts and the provider call of backend/src/ai.ts.        *)
(*                                                                         *)
(* A handler is split at its awaits: every database statement and the      *)
(* provider call is one atomic step, and other requests may run between    *)
(* two steps of the same handler.  Text is a sequence of one-character     *)
(* strings, so that trim, toLowerCase and substring are computed.          *)
(*                                                                         *)
(* The browser tab of frontend/src/App.tsx is modelled by its state        *)
(* (active session, displayed messages, input, isLoading, error) and its   *)
(* event handlers, each split at its fetch.                                *)
(***************************************************************************)
EXTENDS Integers, Sequences, FiniteSets, TLC

----------------------------------------------------------------------------
(* Bounds of the model *)

\* How many sessions and users are ever created (the SERIAL ids handed out).
MaxSessions == 2
MaxUsers == 2
\* How many chat requests the server receives in a run.
NumTurns == 2
\* How many login requests are handled at the same time.
NumLogins == 2

Turns == 1..NumTurns
Logins == 1..NumLogins
SessionIds == 1..MaxSessions
UserIds == 1..MaxUsers

----------------------------------------------------------------------------
(* Text *)

Whitespace == {" ", "\n"}

RECURSIVE TrimStart(_)
TrimStart(s) ==
    IF s # <<>> /\ Head(s) \in Whitespace THEN TrimStart(Tail(s)) ELSE s

RECURSIVE TrimEnd(_)
TrimEnd(s) ==
    IF s # <<>> /\ s[Len(s)] \in Whitespace
    THEN TrimEnd(SubSeq(s, 1, Len(s) - 1))
    ELSE s

\* String.prototype.trim
Trim(s) == TrimEnd(TrimStart(s))

LowerChar(c) ==
    CASE c = "A" -> "a"
      [] c = "L" -> "l"
      [] OTHER -> c

\* String.prototype.toLowerCase
ToLowerCase(s) == [i \in 1..Len(s) |-> LowerChar(s[i])]

\* String.prototype.substring(0, n)
Substring(s, n) == SubSeq(s, 1, IF Len(s) < n THEN Len(s) ELSE n)

\* An optional request field: absent, or present with a value.
None == <<>>
Some(v) == <<v>>

NewChat == <<"N", "e", "w", " ", "C", "h", "a", "t">>
Hello == <<"H", "e", "l", "l", "o">>
LongText == [i \in 1..52 |-> IF i <= 50 THEN "x" ELSE "y"]
BlankText == <<" ", "\n">>
EmptyText == <<>>
ReplyText == <<"H", "i">>

\* The message field of the chat request bodies the model sends.
ChatBodies == {None, Some(EmptyText), Some(BlankText), Some(Hello), Some(LongText)}

\* Of two requests that may overlap, the first carries Hello and the second
\* LongText, so that their contents tell the turns apart; requests handled
\* one at a time carry every body in every order (SpecSerial).
OverlappingBodies(t) ==
    IF t % 2 = 1
    THEN {None, Some(BlankText), Some(Hello)}
    ELSE {Some(EmptyText), Some(BlankText), Some(LongText)}

\* The completions the provider may return: a text, or the empty text of a
\* generation that produced no content.
Completions == {ReplyText, EmptyText}

\* Requests that may overlap are all answered with ReplyText; requests
\* handled one at a time get every completion (SpecSerial).
OverlappingCompletions == {ReplyText}

----------------------------------------------------------------------------
(* State *)

VARIABLES
    users,        \* rows of the users table
    sessions,     \* rows of the sessions table
    messages,     \* rows of the messages table
    userSeq,      \* next value of users.id (SERIAL)
    sessionSeq,   \* next value of sessions.id (SERIAL)
    messageSeq,   \* next value of messages.id (SERIAL)
    now,          \* the latest timestamp the store has given a message
    turn,         \* the chat requests being handled, one per slot
    login,        \* the login requests being handled, one per slot
    renameCount,  \* per session id, how many times its title was rewritten
    reply,        \* the response of a session endpoint, until the client has it
    client        \* the state of the App component of one browser tab

db == <<users, sessions, messages, userSeq, sessionSeq, messageSeq, now>>
vars == <<users, sessions, messages, userSeq, sessionSeq, messageSeq, now,
          turn, login, renameCount, reply, client>>

\* The response envelopes of index.ts.
NoResponse == [kind |-> "none"]
Success(name, value) == [kind |-> "json", success |-> TRUE, payload |-> name, value |-> value]
Failure(text) == [kind |-> "json", success |-> FALSE, error |-> text]

IdleTurn ==
    [pc |-> "idle", sessionId |-> 0, message |-> None, history |-> <<>>,
     prompt |-> <<>>, aiResponse |-> None, savedResponse |-> None,
     response |-> NoResponse,
     \* what the turn saw and did, kept for the properties
     preCount |-> 0, preTitle |-> None, userMsg |-> None, failedAt |-> "",
     renamed |-> FALSE,
     calls |-> 0]    \* how many times the turn has called generateAIResponse

\* The App component after login, before a session is opened: the useState
\* initial values, and no fetch awaiting its response.
IdleClient ==
    [activeSession |-> 0, messages |-> <<>>, inputValue |-> EmptyText,
     isLoading |-> FALSE, error |-> "", asking |-> "", fetches |-> {}]

IdleLogin == [pc |-> "idle", username |-> None, response |-> NoResponse, fault |-> ""]

\* The database after initDatabase, with nobody logged in yet.
Init ==
    /\ users = {}
    /\ sessions = {}
    /\ messages = {}
    /\ userSeq = 1
    /\ sessionSeq = 1
    /\ messageSeq = 1
    /\ now = 0
    /\ turn = [t \in Turns |-> IdleTurn]
    /\ login = [l \in Logins |-> IdleLogin]
    /\ renameCount = [s \in SessionIds |-> 0]
    /\ reply = NoResponse
    /\ client = IdleClient

----------------------------------------------------------------------------
(* The store: db.ts *)

SessionExists(sessionId) == \E s \in sessions : s.id = sessionId

SessionRow(sessionId) == CHOOSE s \in sessions : s.id = sessionId

SessionRows(sessionId) == {m \in messages : m.session_id = sessionId}

RECURSIVE Orderings(_)
Orderings(rows) ==
    IF rows = {} THEN {<<>>}
    ELSE UNION {{<<m>> \o q : q \in Orderings(rows \ {m})} : m \in rows}

\* ORDER BY created_at ASC
OrderedByCreatedAt(q) ==
    \A i, j \in 1..Len(q) : i < j => q[i].created_at <= q[j].created_at

\* getSessionMessages: the results the SELECT may return. Rows with the same
\* created_at come back in an order the query does not fix.
getSessionMessages(sessionId) ==
    {q \in Orderings(SessionRows(sessionId)) : OrderedByCreatedAt(q)}

\* A messages table declared without REFERENCES sessions(id).
NoForeignKey(sessionId) == TRUE

\* messages.session_id REFERENCES sessions(id): the INSERT of a message is
\* accepted when its session exists, and throws otherwise.
ForeignKeyHolds(sessionId) == SessionExists(sessionId)

\* saveMessage: the row the INSERT returns.
MessageRow(sessionId, role, content, ts) ==
    [id |-> messageSeq, session_id |-> sessionId, role |-> role,
     content |-> content, created_at |-> ts]

\* updateSessionTitle: the sessions table after the UPDATE.
updateSessionTitle(sessionId, title) ==
    {IF s.id = sessionId THEN [s EXCEPT !.title = title] ELSE s : s \in sessions}

\* deleteSession: the sessions table after the DELETE.
deleteSession(sessionId) == {s \in sessions : s.id # sessionId}

\* A messages table declared without ON DELETE CASCADE.
NoCascadeDelete(sessionId) == messages

\* messages.session_id REFERENCES sessions(id) ON DELETE CASCADE: the messages
\* table after a session row is deleted.
CascadeDelete(sessionId) == {m \in messages : m.session_id # sessionId}

\* A DELETE that forgets its WHERE clause.
clearAllMessages(sessionId) == {}

\* A DELETE that spares the replies: ... AND role = 'user'
clearUserMessagesOnly(sessionId) ==
    {m \in messages : m.session_id # sessionId \/ m.role # "user"}

\* clearSessionMessages: the messages table after the DELETE.
clearSessionMessages(sessionId) == {m \in messages : m.session_id # sessionId}

----------------------------------------------------------------------------
(* The provider call: ai.ts *)

SystemPrompt == <<"You are a helpful, friendly AI assistant. Keep responses concise.">>

\* Array.prototype.slice(0, -1)
SliceButLast(q) == SubSeq(q, 1, Len(q) - 1)

\* generateAIResponse: the messages handed to generateText.
generateAIResponse(userMessage, history) ==
    <<[role |-> "system", content |-> SystemPrompt]>>
    \o [i \in 1..Len(history) |->
            [role |-> history[i].role, content |-> history[i].content]]
    \o <<[role |-> "user", content |-> userMessage]>>

----------------------------------------------------------------------------
(* POST /api/sessions/:sessionId/chat *)

\* A validation that forgets the trim: !message
MessageIsEmptyNoTrim(body) == body = None \/ body[1] = <<>>

\* !message?.trim()
MessageIsEmpty(body) == body = None \/ Trim(body[1]) = <<>>

\* An off-by-one in the test: history.length <= 2
IsFirstTurnOffByOne(history) == Len(history) <= 2

\* A test that never holds once the user message is stored: history.length < 1
IsFirstTurnNever(history) == Len(history) < 1

\* history.length <= 1
IsFirstTurn(history) == Len(history) <= 1

\* message.substring(0, 50)
TitleLength == 50
TitleOf(message) == Substring(message, TitleLength)

InFlight(t) == turn[t].pc \notin {"idle", "done", "closed"}

\* Turn t inserted a row stamped with the latest timestamp.
StampedNow(t) ==
    \/ turn[t].userMsg # None /\ turn[t].userMsg[1].created_at = now
    \/ turn[t].savedResponse # None /\ turn[t].savedResponse[1].created_at = now

\* created_at DEFAULT CURRENT_TIMESTAMP of a row that turn t inserts: later
\* than every earlier row, or equal to the latest timestamp when that one
\* was taken by a request that is still being handled (two overlapping
\* requests can reach the store within one tick of its clock). The rows of
\* one request are a provider round trip apart, so they never tie.
Stamps(t) ==
    {now + 1} \cup
    (IF ~StampedNow(t) /\ \E u \in Turns \ {t} : InFlight(u) /\ StampedNow(u)
     THEN {now} ELSE {})

\* turn[t] is the t-th chat request the server receives.
LowestFreeSlot(t) == \A u \in Turns : u < t => turn[u].pc # "idle"

\* A catch block that compensates by deleting the turn's user message.
ChatCatchRollback(t, at) ==
    /\ turn' = [turn EXCEPT ![t].pc = "done",
                            ![t].response = Failure("Failed to process message"),
                            ![t].failedAt = at,
                            ![t].history = <<>>,
                            ![t].prompt = <<>>,
                            ![t].aiResponse = None,
                            ![t].savedResponse = None]
    /\ messages' = IF turn[t].userMsg = None THEN messages
                   ELSE messages \ {turn[t].userMsg[1]}

\* The catch block: it logs and answers with the failure envelope; nothing
\* that the handler wrote before the fault is undone.
ChatCatch(t, at) ==
    /\ turn' = [turn EXCEPT ![t].pc = "done",
                            ![t].response = Failure("Failed to process message"),
                            ![t].failedAt = at,
                            ![t].history = <<>>,
                            ![t].prompt = <<>>,
                            ![t].aiResponse = None,
                            ![t].savedResponse = None]
    /\ messages' = messages

\* The request arrives; the handler validates the body and issues the first
\* INSERT.
ChatStart(t, sessionId, body) ==
    /\ turn[t].pc = "idle"
    /\ LowestFreeSlot(t)
    /\ IF MessageIsEmpty(body)
       THEN turn' = [turn EXCEPT ![t] =
                [IdleTurn EXCEPT !.pc = "done", !.sessionId = sessionId,
                                 !.message = body,
                                 !.response = Failure("Message cannot be empty"),
                                 !.failedAt = "validate"]]
       ELSE turn' = [turn EXCEPT ![t] =
                [IdleTurn EXCEPT !.pc = "saveUser", !.sessionId = sessionId,
                                 !.message = body,
                                 !.preCount = Cardinality(SessionRows(sessionId)),
                                 !.preTitle = IF SessionExists(sessionId)
                                              THEN Some(SessionRow(sessionId).title)
                                              ELSE None]]
    /\ UNCHANGED <<db, login, renameCount, reply, client>>

\* await saveMessage(sessionId, 'user', message)
ChatSaveUser(t) ==
    /\ turn[t].pc = "saveUser"
    /\ messageSeq' = messageSeq + 1
    /\ IF ForeignKeyHolds(turn[t].sessionId)
       THEN \E ts \in Stamps(t) :
                LET row == MessageRow(turn[t].sessionId, "user", turn[t].message[1], ts)
                IN /\ messages' = messages \cup {row}
                   /\ now' = ts
                   /\ turn' = [turn EXCEPT ![t].pc = "loadHistory",
                                           ![t].userMsg = Some(row)]
       ELSE \* foreign key violation: the INSERT throws
            /\ ChatCatch(t, "saveUser")
            /\ now' = now
    /\ UNCHANGED <<users, sessions, userSeq, sessionSeq, login, renameCount, reply, client>>

\* const history = await getSessionMessages(sessionId), then the call of
\* generateAIResponse(message, history.slice(0, -1)) up to its request.
ChatLoadHistory(t) ==
    /\ turn[t].pc = "loadHistory"
    /\ \E history \in getSessionMessages(turn[t].sessionId) :
          turn' = [turn EXCEPT
              ![t].pc = "provider",
              ![t].history = history,
              ![t].calls = @ + 1,
              ![t].prompt = generateAIResponse(turn[t].message[1],
                                               SliceButLast(history))]
    /\ UNCHANGED <<db, login, renameCount, reply, client>>

\* A handler that answers with the completion without storing it.
ChatProviderReturnUnsaved(t, text) ==
    /\ turn[t].pc = "provider"
    /\ turn' = [turn EXCEPT
          ![t].pc = "done",
          ![t].response = Success("response",
              MessageRow(turn[t].sessionId, "assistant", text, now))]
    /\ UNCHANGED <<db, login, renameCount, reply, client>>

\* generateText resolves with a completion.
ChatProviderReturn(t, text) ==
    /\ turn[t].pc = "provider"
    /\ turn' = [turn EXCEPT ![t].pc = "saveAssistant", ![t].aiResponse = Some(text)]
    /\ UNCHANGED <<db, login, renameCount, reply, client>>

\* A catch that calls generateAIResponse again after a failure.
ChatProviderFailRetry(t) ==
    /\ turn[t].pc = "provider"
    /\ turn[t].calls <= 2
    /\ turn' = [turn EXCEPT ![t].calls = @ + 1]
    /\ UNCHANGED <<db, login, renameCount, reply, client>>

\* generateText rejects: network fault, provider error payload.
ChatProviderFail(t) ==
    /\ turn[t].pc = "provider"
    /\ ChatCatch(t, "provider")
    /\ UNCHANGED <<users, sessions, userSeq, sessionSeq, messageSeq, now,
                   login, renameCount, reply, client>>

\* const savedResponse = await saveMessage(sessionId, 'assistant', aiResponse),
\* then the test of history.length and either the UPDATE or the response.
ChatSaveAssistant(t) ==
    /\ turn[t].pc = "saveAssistant"
    /\ messageSeq' = messageSeq + 1
    /\ IF ForeignKeyHolds(turn[t].sessionId)
       THEN \E ts \in Stamps(t) :
                LET row == MessageRow(turn[t].sessionId, "assistant",
                                      turn[t].aiResponse[1], ts)
                IN /\ messages' = messages \cup {row}
                   /\ now' = ts
                   /\ IF IsFirstTurn(turn[t].history)
                      THEN turn' = [turn EXCEPT ![t].pc = "rename",
                                                ![t].savedResponse = Some(row)]
                      ELSE turn' = [turn EXCEPT
                               ![t].pc = "done",
                               ![t].history = <<>>,
                               ![t].prompt = <<>>,
                               ![t].aiResponse = None,
                               ![t].response = Success("response", row)]
       ELSE \* foreign key violation: the session was deleted meanwhile
            /\ ChatCatch(t, "saveAssistant")
            /\ now' = now
    /\ UNCHANGED <<users, sessions, userSeq, sessionSeq, login, renameCount, reply, client>>

\* await updateSessionTitle(sessionId, message.substring(0, 50)), then the
\* response.
ChatRename(t) ==
    /\ turn[t].pc = "rename"
    /\ sessions' = updateSessionTitle(turn[t].sessionId, TitleOf(turn[t].message[1]))
    /\ renameCount' =
          IF SessionExists(turn[t].sessionId)
          THEN [renameCount EXCEPT ![turn[t].sessionId] = @ + 1]
          ELSE renameCount
    /\ turn' = [turn EXCEPT
          ![t].pc = "done",
          ![t].history = <<>>,
          ![t].prompt = <<>>,
          ![t].aiResponse = None,
          ![t].savedResponse = None,
          ![t].renamed = SessionExists(turn[t].sessionId),
          ![t].response = Success("response", turn[t].savedResponse[1])]
    /\ UNCHANGED <<users, messages, userSeq, sessionSeq, messageSeq, now, login, reply, client>>

\* A statement of the handler fails because the store is unavailable.
ChatStoreError(t) ==
    /\ turn[t].pc \in {"saveUser", "loadHistory", "saveAssistant", "rename"}
    /\ ChatCatch(t, turn[t].pc)
    /\ UNCHANGED <<users, sessions, userSeq, sessionSeq, messageSeq, now,
                   login, renameCount, reply, client>>

\* The client has its response; the request is over.
ChatReturn(t) ==
    /\ turn[t].pc = "done"
    /\ turn' = [turn EXCEPT ![t] = [IdleTurn EXCEPT !.pc = "closed"]]
    /\ UNCHANGED <<db, login, renameCount, reply, client>>

----------------------------------------------------------------------------
(* The session endpoints *)

\* The title field of the create-session bodies the model sends.
CreateTitles == {None, Some(EmptyText), Some(NewChat)}

\* title || 'New Chat'
TitleOrDefault(title) == IF title = None \/ title[1] = <<>> THEN NewChat ELSE title[1]

\* The error texts of the session endpoints' catch blocks.
SessionEndpoints ==
    [getSessions |-> "Failed to fetch sessions",
     createSession |-> "Failed to create session",
     deleteSession |-> "Failed to delete session",
     getMessages |-> "Failed to fetch messages",
     clearMessages |-> "Failed to clear messages"]

\* ORDER BY created_at DESC
RECURSIVE NewestFirst(_)
NewestFirst(rows) ==
    IF rows = {} THEN <<>>
    ELSE LET newest == CHOOSE r \in rows : \A o \in rows : o.created_at <= r.created_at
         IN <<newest>> \o NewestFirst(rows \ {newest})

\* getUserSessions: the user's sessions, newest first.
getUserSessions(userId) == NewestFirst({s \in sessions : s.user_id = userId})

\* GET /api/sessions/:userId
GetSessions(userId) ==
    /\ reply' = [kind |-> "json", success |-> TRUE, sessions |-> getUserSessions(userId)]
    /\ UNCHANGED <<db, turn, login, renameCount, client>>

\* POST /api/sessions: createSession(userId, title || 'New Chat'). The
\* created_at of a session row is read by getUserSessions only, to order
\* the list; sessions are inserted one statement at a time, and the row
\* holds the rank of its INSERT as its creation time.
CreateSession(userId, title) ==
    /\ sessionSeq <= MaxSessions
    /\ sessionSeq' = sessionSeq + 1
    /\ IF \E u \in users : u.id = userId
       THEN LET row == [id |-> sessionSeq, user_id |-> userId,
                        title |-> TitleOrDefault(title),
                        created_at |-> sessionSeq]
            IN /\ sessions' = sessions \cup {row}
               /\ reply' = [kind |-> "json", success |-> TRUE, session |-> row]
       ELSE \* foreign key violation: the INSERT throws
            /\ sessions' = sessions
            /\ reply' = Failure(SessionEndpoints.createSession)
    /\ UNCHANGED <<users, messages, userSeq, messageSeq, now, turn, login, renameCount, client>>

\* DELETE /api/sessions/:sessionId: one DELETE statement, which the store
\* extends to the session's messages.
DeleteSession(sessionId) ==
    /\ sessions' = deleteSession(sessionId)
    /\ messages' = CascadeDelete(sessionId)
    /\ reply' = [kind |-> "json", success |-> TRUE]
    /\ UNCHANGED <<users, userSeq, sessionSeq, messageSeq, now, turn, login, renameCount, client>>

\* GET /api/sessions/:sessionId/messages
GetMessages(sessionId) ==
    /\ \E q \in getSessionMessages(sessionId) :
          reply' = [kind |-> "json", success |-> TRUE, messages |-> q]
    /\ UNCHANGED <<db, turn, login, renameCount, client>>

\* DELETE /api/sessions/:sessionId/messages
ClearMessages(sessionId) ==
    /\ messages' = clearSessionMessages(sessionId)
    /\ reply' = [kind |-> "json", success |-> TRUE]
    /\ UNCHANGED <<users, sessions, userSeq, sessionSeq, messageSeq, now, turn,
                   login, renameCount, client>>

\* The statement of a session endpoint fails because the store is
\* unavailable: the catch block answers with the endpoint's error text.
SessionStoreError(endpoint) ==
    /\ reply' = Failure(SessionEndpoints[endpoint])
    /\ UNCHANGED <<db, turn, login, renameCount, client>>

\* The client has the response of the session endpoint.
SessionReturn ==
    /\ reply # NoResponse
    /\ reply' = NoResponse
    /\ UNCHANGED <<db, turn, login, renameCount, client>>

----------------------------------------------------------------------------
(* POST /api/auth/login *)

\* The username field of the login bodies the model sends.
LoginBodies ==
    {None, Some(<<"a">>), Some(<<" ", "a", " ">>), Some(<<"A", "l">>),
     Some(<<" ", "a", "L", "\n">>), Some(<<"b", "o">>)}

\* A validation that forgets the trim: !username || username.length < 2
UsernameTooShortNoTrim(body) == body = None \/ body[1] = <<>> \/ Len(body[1]) < 2

\* !username || username.trim().length < 2
UsernameTooShort(body) == body = None \/ body[1] = <<>> \/ Len(Trim(body[1])) < 2

\* username.trim().toLowerCase()
NormalizeUsername(username) == ToLowerCase(Trim(username))

\* SELECT ... FROM users WHERE username = ${username}
SelectUser(username) == {u \in users : u.username = username}

\* A handler without its catch block: the fault ends the request and no
\* response is written.
LoginCatchRethrow(l, fault) ==
    login' = [login EXCEPT ![l].pc = "done", ![l].fault = fault]

\* The catch block; fault records what was thrown, for the properties.
LoginCatch(l, fault) ==
    login' = [login EXCEPT ![l].pc = "done",
                           ![l].response = Failure("Failed to login"),
                           ![l].fault = fault]

\* The request arrives; the handler validates and issues the SELECT of
\* getOrCreateUser.
LoginStart(l, body) ==
    /\ login[l].pc = "idle"
    /\ IF UsernameTooShort(body)
       THEN login' = [login EXCEPT ![l] =
                [IdleLogin EXCEPT
                    !.pc = "done",
                    !.response = Failure("Username must be at least 2 characters")]]
       ELSE login' = [login EXCEPT ![l] =
                [IdleLogin EXCEPT
                    !.pc = "select",
                    !.username = Some(NormalizeUsername(body[1]))]]
    /\ UNCHANGED <<db, turn, renameCount, reply, client>>

\* getOrCreateUser: let result = await sql`SELECT ...`
LoginSelect(l) ==
    /\ login[l].pc = "select"
    /\ LET result == SelectUser(login[l].username[1])
       IN IF result = {}
          THEN login' = [login EXCEPT ![l].pc = "insert"]
          ELSE login' = [login EXCEPT
                   ![l].pc = "done",
                   ![l].response = Success("user", CHOOSE u \in result : TRUE)]
    /\ UNCHANGED <<db, turn, renameCount, reply, client>>

\* getOrCreateUser: result = await sql`INSERT INTO users ...`; username is
\* UNIQUE, so the INSERT throws when the row exists by now.
LoginInsert(l) ==
    /\ login[l].pc = "insert"
    /\ userSeq <= MaxUsers
    /\ userSeq' = userSeq + 1
    /\ IF SelectUser(login[l].username[1]) = {}
       THEN LET row == [id |-> userSeq, username |-> login[l].username[1],
                        created_at |-> now]
            IN /\ users' = users \cup {row}
               /\ login' = [login EXCEPT ![l].pc = "done",
                                         ![l].response = Success("user", row)]
       ELSE /\ users' = users
            /\ LoginCatch(l, "unique")
    /\ UNCHANGED <<sessions, messages, sessionSeq, messageSeq, now, turn, renameCount, reply, client>>

\* A statement of getOrCreateUser fails because the store is unavailable.
LoginStoreError(l) ==
    /\ login[l].pc \in {"select", "insert"}
    /\ LoginCatch(l, "store")
    /\ UNCHANGED <<db, turn, renameCount, reply, client>>

\* The client has its response; the slot takes the next request.
LoginReturn(l) ==
    /\ login[l].pc = "done"
    /\ login' = [login EXCEPT ![l] = IdleLogin]
    /\ UNCHANGED <<db, turn, renameCount, reply, client>>

----------------------------------------------------------------------------
(* The browser tab: frontend/src/App.tsx *)

\* An event handler runs to its first await in one step: React applies the
\* state updates of a handler before the browser dispatches the next event.
\* The sidebar's list of sessions is not kept: no step here reads it. Of the
\* session requests (create, open) one is awaited at a time.

\* What the user types into the textarea.
PaddedHello == <<" ", "H", "e", "l", "l", "o", "\n">>
ClientInputs == {BlankText, PaddedHello}

\* The user of the tab: the row that login stored in localStorage.
ClientUserId == 1

\* Date.now() as the id of tempUserMessage: a number that is the id of no
\* row of the messages table. The created_at of tempUserMessage, a reading
\* of the browser's clock that only formatTime shows, is not kept.
TempId(t) == 0 - t

\* messages.filter(m => m.id !== id)
FilterOutId(q, id) == SelectSeq(q, LAMBDA m : m.id # id)

\* onChange of the textarea, which is rendered for an active session and
\* disabled while isLoading.
ClientType(text) ==
    /\ client.activeSession # 0
    /\ ~client.isLoading
    /\ client' = [client EXCEPT !.inputValue = text]
    /\ UNCHANGED <<db, turn, login, renameCount, reply>>

\* createNewSession up to its fetch.
ClientCreate ==
    /\ client.asking = ""
    /\ sessionSeq <= MaxSessions
    /\ client' = [client EXCEPT !.asking = "create"]
    /\ UNCHANGED <<db, turn, login, renameCount, reply>>

\* onClick of a session in the sidebar: setActiveSession(session), and the
\* effect on activeSession calls fetchMessages up to its fetch.
ClientOpen(sessionId) ==
    /\ client.asking = ""
    /\ \E s \in sessions : s.id = sessionId /\ s.user_id = ClientUserId
    /\ sessionId # client.activeSession
    /\ client' = [client EXCEPT !.activeSession = sessionId, !.asking = "messages"]
    /\ UNCHANGED <<db, turn, login, renameCount, reply>>

\* The rest of createNewSession and of fetchMessages, from the response on.
\* A created session becomes the active one, which runs the effect and so
\* fetchMessages again.
ClientOnReply ==
    /\ reply # NoResponse
    /\ reply' = NoResponse
    /\ IF ~reply.success
       THEN client' = [client EXCEPT !.asking = ""]
       ELSE IF client.asking = "create"
       THEN client' = [client EXCEPT !.activeSession = reply.session.id,
                                     !.messages = <<>>,
                                     !.asking = "messages"]
       ELSE client' = [client EXCEPT !.messages = reply.messages, !.asking = ""]
    /\ UNCHANGED <<db, turn, login, renameCount>>

\* if (!message || isLoading || !activeSession) return
SendRefused ==
    \/ Trim(client.inputValue) = EmptyText
    \/ client.isLoading
    \/ client.activeSession = 0

\* sendMessage up to its fetch; t is the slot the server will handle the
\* request in.
ClientSend(t) ==
    /\ turn[t].pc = "idle"
    /\ LowestFreeSlot(t)
    /\ \A f \in client.fetches : f.t # t
    /\ IF SendRefused
       THEN client' = client
       ELSE LET message == Trim(client.inputValue)
                tempUserMessage ==
                    [id |-> TempId(t), session_id |-> client.activeSession,
                     role |-> "user", content |-> message]
            IN client' = [client EXCEPT
                   !.inputValue = EmptyText,
                   !.isLoading = TRUE,
                   !.error = "",
                   !.messages = Append(@, tempUserMessage),
                   !.fetches = @ \cup {[t |-> t, sessionId |-> client.activeSession,
                                        message |-> message, tempId |-> TempId(t)]}]
    /\ UNCHANGED <<db, turn, login, renameCount, reply>>

\* A finally block that resets the flag after a success only.
FinallyOnSuccessOnly(succeeded) == ~succeeded /\ client.isLoading

\* finally { setIsLoading(false) }: the value of isLoading after the block.
Finally(succeeded) == FALSE

\* sendMessage from the response on: the reply is appended, or the error is
\* shown and the temporary user message is taken out of the list.
ClientReceive(f) ==
    /\ f \in client.fetches
    /\ turn[f.t].pc = "done"
    /\ LET data == turn[f.t].response
       IN IF data.success
          THEN client' = [client EXCEPT
                   !.messages = Append(@, data.value),
                   !.isLoading = Finally(TRUE),
                   !.fetches = @ \ {f}]
          ELSE client' = [client EXCEPT
                   !.error = data.error,
                   !.messages = FilterOutId(@, f.tempId),
                   !.isLoading = Finally(FALSE),
                   !.fetches = @ \ {f}]
    /\ UNCHANGED <<db, turn, login, renameCount, reply>>

\* The fetch of sendMessage rejects: the catch block and the finally. The
\* server may have received the request or not.
ClientNetworkError(f) ==
    /\ f \in client.fetches
    /\ turn[f.t].pc # "done"
    /\ client' = [client EXCEPT
          !.error = "Failed to send message",
          !.messages = FilterOutId(@, f.tempId),
          !.isLoading = Finally(FALSE),
          !.fetches = @ \ {f}]
    /\ UNCHANGED <<db, turn, login, renameCount, reply>>

----------------------------------------------------------------------------
(* Specifications *)

\* res.json() ends a handler in the step that completes it: a finished
\* request is handed back before the server runs anything else.
Delivered ==
    /\ \A t \in Turns : turn[t].pc # "done"
    /\ \A l \in Logins : login[l].pc # "done"
    /\ reply = NoResponse

LoginNext ==
    \/ \E l \in Logins, body \in LoginBodies : Delivered /\ LoginStart(l, body)
    \/ \E l \in Logins : Delivered /\ LoginSelect(l)
    \/ \E l \in Logins : Delivered /\ LoginInsert(l)
    \/ \E l \in Logins : Delivered /\ LoginStoreError(l)
    \/ \E l \in Logins : LoginReturn(l)

\* The chat endpoint and the session endpoints that write the tables, with
\* requests that overlap.
ChatNext ==
    \/ SessionReturn
    \/ \E userId \in UserIds, title \in CreateTitles :
          Delivered /\ CreateSession(userId, title)
    \/ \E sessionId \in SessionIds : Delivered /\ DeleteSession(sessionId)
    \/ \E sessionId \in SessionIds : Delivered /\ ClearMessages(sessionId)
    \/ \E t \in Turns, sessionId \in SessionIds :
          \E body \in OverlappingBodies(t) : Delivered /\ ChatStart(t, sessionId, body)
    \/ \E t \in Turns : Delivered /\ ChatSaveUser(t)
    \/ \E t \in Turns : Delivered /\ ChatLoadHistory(t)
    \/ \E t \in Turns, text \in OverlappingCompletions :
          Delivered /\ ChatProviderReturn(t, text)
    \/ \E t \in Turns : Delivered /\ ChatProviderFail(t)
    \/ \E t \in Turns : Delivered /\ ChatSaveAssistant(t)
    \/ \E t \in Turns : Delivered /\ ChatRename(t)
    \/ \E t \in Turns : Delivered /\ ChatStoreError(t)
    \/ \E t \in Turns : ChatReturn(t)

Next == LoginNext \/ ChatNext

\* The whole backend, from the empty database.
Spec == Init /\ [][Next]_vars

\* The login endpoint alone.
SpecLogin == Init /\ [][LoginNext]_vars

\* The database once the first user has logged in.
InitLoggedIn ==
    /\ users = {[id |-> 1, username |-> <<"a", "l">>, created_at |-> 0]}
    /\ sessions = {}
    /\ messages = {}
    /\ userSeq = 2
    /\ sessionSeq = 1
    /\ messageSeq = 1
    /\ now = 0
    /\ turn = [t \in Turns |-> IdleTurn]
    /\ login = [l \in Logins |-> IdleLogin]
    /\ renameCount = [s \in SessionIds |-> 0]
    /\ reply = NoResponse
    /\ client = IdleClient

\* The session and chat endpoints, for a user who has logged in.
SpecChat == InitLoggedIn /\ [][ChatNext]_vars

\* No chat request is being handled.
NoTurnInFlight == \A t \in Turns : ~InFlight(t)

\* The same endpoints with the requests handled one at a time: a request is
\* taken up only when no chat turn is being handled.
SerialNext ==
    \/ \E userId \in UserIds : Delivered /\ NoTurnInFlight /\ GetSessions(userId)
    \/ \E sessionId \in SessionIds : Delivered /\ NoTurnInFlight /\ GetMessages(sessionId)
    \/ \E endpoint \in DOMAIN SessionEndpoints :
          Delivered /\ NoTurnInFlight /\ SessionStoreError(endpoint)
    \/ SessionReturn
    \/ \E userId \in UserIds, title \in CreateTitles :
          Delivered /\ NoTurnInFlight /\ CreateSession(userId, title)
    \/ \E sessionId \in SessionIds :
          Delivered /\ NoTurnInFlight /\ DeleteSession(sessionId)
    \/ \E sessionId \in SessionIds :
          Delivered /\ NoTurnInFlight /\ ClearMessages(sessionId)
    \/ \E t \in Turns, sessionId \in SessionIds, body \in ChatBodies :
          Delivered /\ NoTurnInFlight /\ ChatStart(t, sessionId, body)
    \/ \E t \in Turns : ChatSaveUser(t)
    \/ \E t \in Turns : ChatLoadHistory(t)
    \/ \E t \in Turns, text \in Completions : ChatProviderReturn(t, text)
    \/ \E t \in Turns : ChatProviderFail(t)
    \/ \E t \in Turns : ChatSaveAssistant(t)
    \/ \E t \in Turns : ChatRename(t)
    \/ \E t \in Turns : ChatStoreError(t)
    \/ \E t \in Turns : ChatReturn(t)

SpecSerial == InitLoggedIn /\ [][SerialNext]_vars

\* The steps of a turn that the handler and the store take by themselves:
\* the store answers every statement, and Node runs the continuation and
\* writes the response.
HandlerStep(t) ==
    \/ ChatSaveUser(t)
    \/ ChatLoadHistory(t)
    \/ ChatSaveAssistant(t)
    \/ ChatRename(t)
    \/ ChatReturn(t)

\* SpecSerial with the progress the code has: a handler step that can be
\* taken is taken. Nothing makes the provider resolve or reject, and
\* generateAIResponse sets no timer and passes no abort signal to
\* generateText, so the two provider steps carry no fairness.
SpecLive ==
    /\ InitLoggedIn
    /\ [][SerialNext]_vars
    /\ \A t \in Turns : WF_vars(HandlerStep(t))

\* One browser tab of the logged-in user and the server behind it: the
\* requests the server receives are the ones the tab has sent.
ClientNext ==
    \/ Delivered /\ ClientCreate
    \/ \E sessionId \in SessionIds : Delivered /\ ClientOpen(sessionId)
    \/ \E text \in ClientInputs : Delivered /\ ClientType(text)
    \/ \E t \in Turns : Delivered /\ ClientSend(t)
    \/ \E f \in client.fetches : Delivered /\ ClientNetworkError(f)
    \/ \E f \in client.fetches : ClientReceive(f)
    \/ ClientOnReply
    \/ Delivered /\ client.asking = "create"
          /\ CreateSession(ClientUserId, Some(NewChat))
    \/ Delivered /\ client.asking = "messages" /\ GetMessages(client.activeSession)
    \/ \E f \in client.fetches :
          Delivered /\ ChatStart(f.t, f.sessionId, Some(f.message))
    \/ \E t \in Turns : Delivered /\ ChatSaveUser(t)
    \/ \E t \in Turns : Delivered /\ ChatLoadHistory(t)
    \/ \E t \in Turns, text \in OverlappingCompletions :
          Delivered /\ ChatProviderReturn(t, text)
    \/ \E t \in Turns : Delivered /\ ChatProviderFail(t)
    \/ \E t \in Turns : Delivered /\ ChatSaveAssistant(t)
    \/ \E t \in Turns : Delivered /\ ChatRename(t)
    \/ \E t \in Turns : Delivered /\ ChatStoreError(t)
    \/ \E t \in Turns : (\A f \in client.fetches : f.t # t) /\ ChatReturn(t)

SpecClient == InitLoggedIn /\ [][ClientNext]_vars

\* No login request is being handled.
NoLoginInFlight == \A l \in Logins : login[l].pc = "idle"

\* Every endpoint, from the empty database: logins, which may overlap with
\* each other, and between them the session and chat requests, one at a time.
ApiNext ==
    \/ NoTurnInFlight /\ LoginNext
    \/ NoLoginInFlight /\ SerialNext

SpecApi == Init /\ [][ApiNext]_vars

----------------------------------------------------------------------------
(* Properties *)

\* A body with no message, or one made of whitespace only.
Blank(body) == body = None \/ \A i \in 1..Len(body[1]) : body[1][i] \in Whitespace

Failed(t) == turn[t].response.kind = "json" /\ ~turn[t].response.success
Succeeded(t) == turn[t].response.kind = "json" /\ turn[t].response.success

\* C1: a chat request whose message is missing, empty or whitespace-only is
\* answered with a failure in the step that receives it, and that step
\* changes no table, rewrites no title and sends nothing to the provider;
\* such a request never gets past validation.
C1_EmptyMessageRejected ==
    [][\A t \in Turns :
          /\ Blank(turn'[t].message) => turn'[t].pc \in {"idle", "done", "closed"}
          /\ (turn[t].pc = "idle" /\ turn'[t].pc # "idle" /\ Blank(turn'[t].message))
                => /\ turn'[t].pc = "done"
                   /\ turn'[t].response.kind = "json"
                   /\ ~turn'[t].response.success
                   /\ turn'[t].prompt = <<>>
                   /\ turn'[t].userMsg = None
                   /\ db' = db
                   /\ renameCount' = renameCount]_vars

\* C1 happens: a whitespace-only message was refused on a session that
\* holds messages.
C1_Witness ==
    \E t \in Turns :
        /\ turn[t].pc = "done"
        /\ turn[t].message = Some(BlankText)
        /\ Failed(t)
        /\ SessionRows(turn[t].sessionId) # {}

AfterUserPersisted == {"loadHistory", "provider", "saveAssistant"}

\* C2: when the history load, the provider call or the insert of the reply
\* fails, the step that ends the turn leaves the messages table as it was
\* (the turn's user message is not removed, no reply is added), the turn has
\* stored no reply, and it answers with a failure.
C2_FailureKeepsUserMessage ==
    [][\A t \in Turns :
          (turn[t].pc \in AfterUserPersisted /\ turn'[t].pc = "done"
              /\ turn'[t].failedAt \in AfterUserPersisted)
            => /\ messages' = messages
               /\ turn'[t].userMsg = turn[t].userMsg
               /\ turn[t].userMsg # None
               /\ turn'[t].savedResponse = None
               /\ turn'[t].response.kind = "json"
               /\ ~turn'[t].response.success]_vars

\* C2 happens: the provider failed and the turn's user message is stored.
C2_Witness ==
    \E t \in Turns :
        /\ turn[t].pc = "done"
        /\ turn[t].failedAt = "provider"
        /\ Failed(t)
        /\ turn[t].userMsg[1] \in SessionRows(turn[t].sessionId)
        /\ \A m \in SessionRows(turn[t].sessionId) : m.role = "user"

\* C3: the title of a session is rewritten at most once in its lifetime.
C3_TitleRewrittenAtMostOnce == \A s \in SessionIds : renameCount[s] <= 1

TitleNow(sessionId) == SessionRow(sessionId).title

\* The first 50 characters of a text.
First50(text) == [i \in 1..(IF Len(text) < 50 THEN Len(text) ELSE 50) |-> text[i]]

\* C4: with the requests handled one at a time, a turn that succeeds on a
\* session that had no message leaves the title equal to the first 50
\* characters of its message, and a turn that succeeds on a session that had
\* messages leaves the title as it found it.
C4_FirstTurnRenames ==
    \A t \in Turns :
        (turn[t].pc = "done" /\ Succeeded(t)) =>
            /\ SessionExists(turn[t].sessionId)
            /\ turn[t].preCount = 0 =>
                  TitleNow(turn[t].sessionId) = First50(turn[t].message[1])
            /\ turn[t].preCount > 0 =>
                  TitleNow(turn[t].sessionId) = turn[t].preTitle[1]

\* C4 happens: the first message of a session was Hello, and the second
\* message, longer than 50 characters, has been answered.
C4_Witness ==
    \E t \in Turns :
        /\ turn[t].pc = "done"
        /\ Succeeded(t)
        /\ turn[t].message = Some(LongText)
        /\ turn[t].preCount = 2
        /\ TitleNow(turn[t].sessionId) = Hello

\* C4 happens too: the first message of a session is longer than 50
\* characters, and the title is its first 50 characters.
C4_WitnessLong ==
    \E t \in Turns :
        /\ turn[t].pc = "done"
        /\ Succeeded(t)
        /\ turn[t].message = Some(LongText)
        /\ turn[t].preCount = 0
        /\ Len(TitleNow(turn[t].sessionId)) = 50

\* C5 as claimed: with the requests handled one at a time, a turn that
\* stores its reply in a session that had at most one message before it
\* sets the title.
C5_AtMostOneMessageRenames ==
    \A t \in Turns :
        (turn[t].pc = "done" /\ Succeeded(t) /\ turn[t].preCount <= 1) => turn[t].renamed

\* C5 as amended: with the requests handled one at a time, a turn that
\* stores its reply sets the title exactly when the session had no message
\* before it; a turn that finds the user message of a failed turn does not.
C5_OnlyEmptySessionRenames ==
    \A t \in Turns :
        (turn[t].pc = "done" /\ Succeeded(t)) =>
            (turn[t].renamed <=> turn[t].preCount = 0)

\* C5 happens: a turn failed at the provider and left its user message; the
\* next turn was answered and the title is still the default.
C5_Witness ==
    \E t \in Turns :
        /\ turn[t].pc = "done"
        /\ Succeeded(t)
        /\ turn[t].preCount = 1
        /\ \E m \in SessionRows(turn[t].sessionId) :
              m.role = "user" /\ m.id < turn[t].userMsg[1].id
        /\ ~turn[t].renamed
        /\ TitleNow(turn[t].sessionId) = NewChat
        /\ renameCount[turn[t].sessionId] = 0

\* C6: in no state is a session gone while messages of it remain, and
\* getSessionMessages on the id of a session that does not exist returns the
\* empty list.
C6_DeleteIsAtomic ==
    /\ \A m \in messages : SessionExists(m.session_id)
    /\ \A id \in SessionIds :
          ~SessionExists(id) => getSessionMessages(id) = {<<>>}

\* C6 happens: a session was deleted after a turn had stored its user
\* message in it.
C6_Witness ==
    \E t \in Turns :
        /\ turn[t].userMsg # None
        /\ ~SessionExists(turn[t].sessionId)
        /\ getSessionMessages(turn[t].sessionId) = {<<>>}
        /\ messages # {}

ValidLogin(l) == login[l].pc = "done" /\ login[l].username # None

\* C7: every login with a valid username, the store being available, returns
\* the user, all logins with one username return the same id, and one user
\* row holds that username.
C7_LoginIsIdempotent ==
    \A l \in Logins :
        (ValidLogin(l) /\ login[l].fault # "store") =>
            /\ login[l].response.success
            /\ Cardinality(SelectUser(login[l].username[1])) = 1
            /\ \A u \in SelectUser(login[l].username[1]) :
                  login[l].response.value.id = u.id

\* C8: the history a turn loads is in non-decreasing order of created_at,
\* and rows with equal created_at are in increasing order of id.
C8_HistoryOrderedWithTies ==
    \A t \in Turns :
        \A i, j \in 1..Len(turn[t].history) :
            i < j =>
                \/ turn[t].history[i].created_at < turn[t].history[j].created_at
                \/ /\ turn[t].history[i].created_at = turn[t].history[j].created_at
                   /\ turn[t].history[i].id < turn[t].history[j].id

\* What the requests on a session see of it: its title and its messages.
SessionView(sessionId) ==
    <<{s.title : s \in {r \in sessions : r.id = sessionId}}, SessionRows(sessionId)>>

\* C9: a step of a turn changes the title and the messages of no session
\* but its own, a clear or a delete of a session changes those of no other
\* session, every step changes those of at most one session, and the
\* history a turn hands to the provider holds rows of its own session only.
C9_SessionsAreIndependent ==
    [][/\ \A t \in Turns :
             turn'[t] # turn[t] =>
                \A a \in SessionIds \ {turn[t].sessionId} :
                    SessionView(a)' = SessionView(a)
       /\ \A b \in SessionIds :
             (ClearMessages(b) \/ DeleteSession(b)) =>
                \A a \in SessionIds \ {b} : SessionView(a)' = SessionView(a)
       /\ Cardinality({a \in SessionIds : SessionView(a)' # SessionView(a)}) <= 1
       /\ \A t \in Turns :
             \A i \in 1..Len(turn'[t].history) :
                 turn'[t].history[i].session_id = turn'[t].sessionId]_vars

\* C9 happens: two turns are being handled, one in each of two sessions, and
\* each has loaded its history.
C9_Witness ==
    \E t, u \in Turns :
        /\ turn[t].sessionId = 1 /\ turn[u].sessionId = 2
        /\ turn[t].pc = "provider" /\ turn[u].pc = "provider"
        /\ turn[t].history # <<>> /\ turn[u].history # <<>>
        /\ SessionRows(1) # {} /\ SessionRows(2) # {}

\* C10: a turn whose rename fails after its reply is stored answers with
\* success.
C10_RenameFailureIsNotAFailure ==
    \A t \in Turns :
        (turn[t].pc = "done" /\ turn[t].failedAt = "rename") => Succeeded(t)

\* The messages of a prompt: role and content of each row, in order.
AsPrompt(q) == [i \in 1..Len(q) |-> [role |-> q[i].role, content |-> q[i].content]]

\* The rows of q other than row, in the order of q.
Without(q, row) == SelectSeq(q, LAMBDA m : m.id # row.id)

\* C11: the prompt a turn sends is the system message, then every row of
\* the history it loaded other than the user message it stored itself, in
\* the loaded order with role and content, then its own message last.
C11_PromptIsPriorHistory ==
    \A t \in Turns :
        turn[t].pc = "provider" =>
            turn[t].prompt =
                <<[role |-> "system", content |-> SystemPrompt]>>
                \o AsPrompt(Without(turn[t].history, turn[t].userMsg[1]))
                \o <<[role |-> "user", content |-> turn[t].message[1]]>>

\* A response body that carries the boolean success flag, and an error
\* message when the flag is false.
IsEnvelope(r) ==
    /\ r.kind = "json"
    /\ r.success \in BOOLEAN
    /\ ~r.success => r.error # ""

\* C12: a request of any endpoint is over exactly when it has one response,
\* which carries a boolean success flag; a response once written is not
\* replaced, the request only ends; and every fault of a store statement
\* or of the provider call (a turn's failedAt, a login's fault, an outage
\* under a session endpoint, the foreign key of a new session) is answered
\* with success false.
C12_OneResponsePerRequest ==
    [][/\ \A t \in Turns :
             /\ turn'[t].pc = "done" => IsEnvelope(turn'[t].response)
             /\ turn'[t].pc # "done" => turn'[t].response = NoResponse
             /\ turn[t].pc = "done" => (turn'[t] = turn[t] \/ turn'[t].pc = "closed")
             /\ turn'[t].failedAt # "" => (turn'[t].pc = "done" /\ ~turn'[t].response.success)
       /\ \A l \in Logins :
             /\ login'[l].pc = "done" => IsEnvelope(login'[l].response)
             /\ login'[l].pc # "done" => login'[l].response = NoResponse
             /\ login[l].pc = "done" => (login'[l] = login[l] \/ login'[l].pc = "idle")
             /\ login'[l].fault # "" => (login'[l].pc = "done" /\ ~login'[l].response.success)
       /\ reply' # NoResponse => IsEnvelope(reply')
       /\ reply # NoResponse => reply' \in {reply, NoResponse}
       /\ \A endpoint \in DOMAIN SessionEndpoints :
             SessionStoreError(endpoint) =>
                 reply' = Failure(SessionEndpoints[endpoint])
       /\ \A userId \in UserIds, title \in CreateTitles :
             (CreateSession(userId, title) /\ sessions' = sessions) => ~reply'.success]_vars

\* C12 happens: the store failed under a fetch of the messages of a session
\* that holds a turn's messages, and the request was answered with a failure.
C12_Witness ==
    /\ reply = Failure(SessionEndpoints.getMessages)
    /\ \E t \in Turns : turn[t].pc = "closed"
    /\ \E m \in messages : m.role = "assistant"
    /\ Cardinality(users) = 2

\* C13: every chat turn that has begun eventually completes with a response,
\* also when the provider never answers.
C13_TurnCompletes ==
    \A t \in Turns : InFlight(t) ~> (turn[t].pc = "done")

\* C14: no two turns on one session are in flight with both their user
\* messages stored: the second does not persist its user message while the
\* first has not completed.
C14_OneTurnPerSession ==
    \A t, u \in Turns :
        (t # u /\ InFlight(t) /\ InFlight(u)
             /\ turn[t].sessionId = turn[u].sessionId)
          => ~(turn[t].userMsg # None /\ turn[u].userMsg # None)

\* A username that is missing or, trimmed and lowercased, shorter than two
\* characters.
ShortWhenNormalized(body) == body = None \/ Len(ToLowerCase(Trim(body[1]))) < 2

\* C15: the step that receives a login whose username is missing or, after
\* trimming and lowercasing, shorter than two characters answers it with a
\* failure, issues no statement and changes no table; and no user row ever
\* holds a username shorter than two characters.
C15_ShortUsernameRejected ==
    [][/\ \A l \in Logins, body \in LoginBodies :
             (LoginStart(l, body) /\ ShortWhenNormalized(body))
                => /\ login'[l].pc = "done"
                   /\ login'[l].response.kind = "json"
                   /\ ~login'[l].response.success
                   /\ login'[l].username = None
                   /\ db' = db
       /\ \A u \in users' : Len(u.username) >= 2]_vars

\* C15 happens: a login was refused for its username while a user exists
\* and another login is being handled.
C15_Witness ==
    \E l, k \in Logins :
        /\ login[l].pc = "done"
        /\ login[l].response = Failure("Username must be at least 2 characters")
        /\ login[k].pc = "insert"
        /\ users # {}

\* C16: a clear of a session leaves no message of that session and every
\* message of every other session, leaves the sessions table (id, owner,
\* title and creation time of every row) and the users table as they were,
\* and answers with success.
C16_ClearKeepsSession ==
    [][\A b \in SessionIds :
          ClearMessages(b) =>
             /\ SessionRows(b)' = {}
             /\ \A a \in SessionIds \ {b} : SessionRows(a)' = SessionRows(a)
             /\ messages' \subseteq messages
             /\ sessions' = sessions
             /\ users' = users
             /\ reply'.success]_vars

\* C16 happens: a session whose first turn was answered and retitled it has
\* been cleared; it exists with that title and holds no message, while the
\* other session holds the user message of a turn in flight.
C16_Witness ==
    \E b \in SessionIds, t \in Turns :
        /\ reply = [kind |-> "json", success |-> TRUE]
        /\ SessionExists(b)
        /\ renameCount[b] = 1
        /\ TitleNow(b) = Hello
        /\ SessionRows(b) = {}
        /\ InFlight(t)
        /\ turn[t].sessionId # b
        /\ turn[t].userMsg # None
        /\ turn[t].userMsg[1] \in messages

\* C17: every stored message has non-empty content; a turn whose completion
\* is empty stores no assistant message.
C17_ContentNonEmpty == \A m \in messages : m.content # EmptyText

\* The ids of the rows of the sessions table.
StoredSessionIds == {s.id : s \in sessions}

\* C18: after every step, whatever deletions it is interleaved with, every
\* stored message belongs to a stored session; and an insert of a message
\* for a session that does not exist (never created, or deleted meanwhile)
\* adds no row and ends the turn with a failure.
C18_NoOrphanMessage ==
    [][/\ \A m \in messages' : m.session_id \in StoredSessionIds'
       /\ \A t \in Turns :
             (turn[t].pc \in {"saveUser", "saveAssistant"}
                 /\ turn'[t] # turn[t]
                 /\ turn[t].sessionId \notin StoredSessionIds)
               => /\ messages' = messages
                  /\ turn'[t].pc = "done"
                  /\ ~turn'[t].response.success
                  /\ turn'[t].savedResponse = None]_vars

\* C18 happens: a session was deleted while a turn on it awaited the
\* provider; the insert of the reply failed, the turn is answered with a
\* failure, and the messages of the other session are still stored.
C18_Witness ==
    \E t \in Turns :
        /\ turn[t].pc = "done"
        /\ turn[t].failedAt = "saveAssistant"
        /\ turn[t].userMsg # None
        /\ turn[t].sessionId \notin StoredSessionIds
        /\ \A m \in messages : m.session_id # turn[t].sessionId
        /\ messages # {}

\* The steps of a turn, by the statement the handler is at: Received
\* (idle to saveUser), UserPersisted (loadHistory), HistoryLoaded and
\* ProviderInvoked (provider), provider success (saveAssistant),
\* AssistantPersisted (rename, or done), Completed (done); every step may
\* end the turn instead.
StepOrder ==
    [idle |-> {"saveUser", "done"},
     saveUser |-> {"loadHistory", "done"},
     loadHistory |-> {"provider", "done"},
     provider |-> {"saveAssistant", "done"},
     saveAssistant |-> {"rename", "done"},
     rename |-> {"done"},
     done |-> {"closed"},
     closed |-> {}]

\* The rows a step inserts.
Inserted == messages' \ messages

\* C19: a turn moves through its steps in the fixed order; an assistant row
\* is inserted only by a turn whose provider call has returned, with that
\* completion; a title changes only in the step of a turn that has
\* inserted its assistant row; and a success response carries the
\* assistant row that this turn inserted.
C19_StepsInOrder ==
    [][/\ \A t \in Turns :
             /\ turn'[t].pc # turn[t].pc => turn'[t].pc \in StepOrder[turn[t].pc]
             /\ (turn[t].pc = "saveAssistant" /\ turn'[t].pc = "rename")
                   => /\ turn'[t].savedResponse # None
                      /\ turn'[t].savedResponse[1] \in Inserted
             /\ (turn[t].pc # "done" /\ turn'[t].pc = "done"
                     /\ turn'[t].response.success)
                   => LET r == turn'[t].response.value
                      IN /\ r.role = "assistant"
                         /\ r.session_id = turn[t].sessionId
                         /\ turn[t].aiResponse = Some(r.content)
                         /\ \/ turn[t].pc = "saveAssistant" /\ r \in Inserted
                            \/ turn[t].pc = "rename" /\ turn[t].savedResponse = Some(r)
       /\ \A m \in Inserted :
             m.role = "assistant" =>
                \E t \in Turns :
                    /\ turn[t].pc = "saveAssistant"
                    /\ turn'[t] # turn[t]
                    /\ turn[t].aiResponse = Some(m.content)
                    /\ turn[t].sessionId = m.session_id
       /\ (\E a \in sessions, b \in sessions' : a.id = b.id /\ a.title # b.title)
             => \E t \in Turns :
                    /\ turn[t].pc = "rename"
                    /\ turn'[t].pc = "done"
                    /\ turn[t].savedResponse # None
                    /\ turn[t].savedResponse[1].role = "assistant"]_vars

\* C19 happens: a turn went through every step, retitled its session and is
\* answered with its stored reply, while the other turn on the same session
\* has stored its user message and is still in flight.
C19_Witness ==
    \E t, u \in Turns :
        /\ turn[t].pc = "done"
        /\ Succeeded(t)
        /\ turn[t].renamed
        /\ turn[t].response.value \in SessionRows(turn[t].sessionId)
        /\ InFlight(u)
        /\ turn[u].sessionId = turn[t].sessionId
        /\ turn[u].userMsg # None

\* C20: a turn calls the provider at most once; the step in which the call
\* settles takes the turn on to the insert of the reply or ends it, never
\* back to the provider; and a turn whose call failed ends in that step with
\* one failure response, having called once.
C20_ProviderCalledOnce ==
    [][\A t \in Turns :
          /\ turn'[t].calls <= 1
          /\ (turn[t].pc = "provider" /\ turn'[t] # turn[t])
                => /\ turn'[t].pc \in {"saveAssistant", "done"}
                   /\ turn'[t].calls = 1
          /\ (turn[t].pc # "done" /\ turn'[t].failedAt = "provider")
                => /\ turn[t].pc = "provider"
                   /\ turn'[t].pc = "done"
                   /\ turn'[t].response = Failure("Failed to process message")
                   /\ messages' = messages]_vars

\* C20 happens: the provider call of a turn failed; the turn is answered
\* with a failure after one call, and the session holds its user message
\* after the two messages of an earlier turn.
C20_Witness ==
    \E t \in Turns :
        /\ turn[t].pc = "done"
        /\ turn[t].failedAt = "provider"
        /\ turn[t].calls = 1
        /\ turn[t].preCount = 2
        /\ Cardinality(SessionRows(turn[t].sessionId)) = 3

\* C21: once a turn has failed with its user message stored and the tab has
\* handled the failure response (it shows the response's error), the list
\* the tab displays for that session holds the user message.
C21_UserSeesOwnMessage ==
    \A t \in Turns :
        (/\ turn[t].pc = "done"
         /\ Failed(t)
         /\ turn[t].userMsg # None
         /\ turn[t].userMsg[1] \in messages
         /\ \A f \in client.fetches : f.t # t
         /\ client.error = turn[t].response.error
         /\ client.asking = ""
         /\ client.activeSession = turn[t].sessionId)
          => \E i \in 1..Len(client.messages) :
                 /\ client.messages[i].role = "user"
                 /\ client.messages[i].session_id = turn[t].sessionId
                 /\ client.messages[i].content = turn[t].userMsg[1].content

UserRows(sessionId) == {m \in SessionRows(sessionId) : m.role = "user"}
AssistantRows(sessionId) == {m \in SessionRows(sessionId) : m.role = "assistant"}

\* The user messages of a session that no other user message precedes.
OldestUserRows(sessionId) ==
    {m \in UserRows(sessionId) :
        \A n \in UserRows(sessionId) : m.created_at <= n.created_at}

\* No request on the session is being handled.
Quiet(sessionId) ==
    \A t \in Turns : InFlight(t) => turn[t].sessionId # sessionId

\* C22: when two or more turns on a session have all been answered (every
\* user message of the session has its reply and no request on it is being
\* handled), whatever their interleaving, the title is not the default, it
\* is the first 50 characters of the session's oldest user message, and the
\* title was written once.
C22_ConcurrentTurnsRenameOnce ==
    \A s \in SessionIds :
        (/\ SessionExists(s)
         /\ Quiet(s)
         /\ Cardinality(UserRows(s)) >= 2
         /\ Cardinality(AssistantRows(s)) = Cardinality(UserRows(s)))
          => /\ TitleNow(s) # NewChat
             /\ \E m \in OldestUserRows(s) : TitleNow(s) = First50(m.content)
             /\ renameCount[s] = 1

\* C23: in every state and for every session, the stored assistant messages
\* are no more than the stored user messages, however turns and
\* clear-messages requests on the session interleave.
C23_AssistantsNeverOutnumberUsers ==
    \A s \in SessionIds :
        Cardinality(AssistantRows(s)) <= Cardinality(UserRows(s))

\* C24: the tab never has two chat requests in flight, and isLoading is
\* true exactly while it has one: the flag is set when the request is
\* issued and is false after every outcome of it (reply, failure response,
\* network error), so that sendMessage is not refused on its account once
\* the request is over.
C24_OneRequestInFlight ==
    /\ Cardinality(client.fetches) <= 1
    /\ client.isLoading <=> client.fetches # {}

\* C24 happens: the first request of the tab stored its user message and
\* ended without a reply, the tab took the message out of its list, and the
\* next message of the user is on its way in a second request.
C24_Witness ==
    \E f \in client.fetches :
        /\ f.t = 2
        /\ turn[2].pc = "idle"
        /\ turn[1].pc \in {"done", "closed"}
        /\ client.isLoading
        /\ UserRows(f.sessionId) # {}
        /\ AssistantRows(f.sessionId) = {}
        /\ Len(client.messages) = 1
        /\ client.messages[1].id = f.tempId

====
